---------------------------- MODULE Spec2Model ----------------------------
(***************************************************************************)
(* Model of the space-game scene component (src/src/components/Game.jsx)   *)
(* and of the App shell that mounts it (src/src/App.jsx).                  *)
(*                                                                         *)
(* Game.jsx holds two versions of the Game component:                      *)
(*   version 1, lines   1-506: roll keys R/F, pitch unbounded;             *)
(*   version 2, lines 507-891: no roll keys, pitch clamped to +-PI/2.      *)
(* Everything else (state, listeners, thrust, physics interval) is the     *)
(* same text in both, so one model carries a `version` that selects the    *)
(* two places where they differ.                                           *)
(*                                                                         *)
(* Numbers.  Angles are exact: an angle is c hundredths of a radian plus   *)
(* q quarter turns, [c |-> c, q |-> q] = c * 0.01 + q * PI/2.  Pointer     *)
(* coordinates are whole pixels, so a drag changes c only; q becomes       *)
(* non-zero only through version 2's clamp to +-PI/2.  Math.sin / Math.cos *)
(* are tabulated at multiples of 0.1 rad, rounded to two decimals          *)
(* (TrigScale), and are exact (0, +-1) at the quarter turns.  Direction    *)
(* vectors are products of two such values (DirScale).  Velocity and       *)
(* position are fixed-point with Unit per 1.0, chosen so that              *)
(* direction * thrustPower is exact.                                       *)
(*                                                                         *)
(* React.  Every handler is a closure of the render that registered it.    *)
(* keydown, mousedown and mouseup are discrete events: React renders their *)
(* updates and re-runs the affected effects before the next task, so the   *)
(* listeners they re-register see the new values at once.  mousemove is a  *)
(* continuous event: its updates are rendered, and the effects re-run, in  *)
(* a later scheduler task (action Commit); until then the registered       *)
(* closures keep the values of the last render.  A discrete event that     *)
(* arrives in between renders its own updates on top of the last rendered  *)
(* state and leaves the pending ones pending.                              *)
(***************************************************************************)
EXTENDS Integers, Sequences, FiniteSets, TLC

VARIABLES
    version,            \* which Game component of Game.jsx is mounted (1 or 2)
    gameStarted,        \* App.jsx:7
    characterRotation,  \* Game.jsx:295  {x: pitch, y: yaw, z: roll}
    characterVelocity,  \* Game.jsx:296
    characterPosition,  \* Game.jsx:297
    isMouseDown,        \* Game.jsx:298
    lastMouseX,         \* Game.jsx:299
    lastMouseY,         \* Game.jsx:300
    keydownClosure,     \* characterRotation as captured by the registered handleKeyDown
    mouseClosure,       \* isMouseDown, lastMouseX, lastMouseY as captured by the registered mouse handlers
    intervalClosure,    \* characterVelocity as captured by the live physics interval
    live,               \* number of live registrations per listener / timer
    nEvents,            \* input and timer events delivered so far
    lastEvent,          \* the event handled last
    elapsed,            \* ms since the live physics interval was set or last fired
    camera,             \* state.camera.position as the last frame set it
    audio,              \* isPlaying and volume of each mounted AudioPlayer
    regime,             \* gravity regime: "Free", "Planar" or "Radial"
    attractor,          \* the attractor recorded for the Radial regime, or NoAttractor
    yawOffset,          \* accumulated yaw offset of the constrained look mode
    orientation,        \* the body orientation the regime machine maintains
    zoneEntry           \* the orientation just before the last zone entry

vars == <<version, gameStarted, characterRotation, characterVelocity,
          characterPosition, isMouseDown, lastMouseX, lastMouseY,
          keydownClosure, mouseClosure, intervalClosure, live,
          nEvents, lastEvent, elapsed, camera, regime, attractor, yawOffset,
          orientation, zoneEntry, audio>>

gameState == <<characterRotation, characterVelocity, characterPosition,
               isMouseDown, lastMouseX, lastMouseY>>

closures == <<keydownClosure, mouseClosure, intervalClosure>>

\* the variables of the Game component and of the App shell
gameVars == <<version, gameStarted, gameState, closures, live>>

\* the clock of the physics interval
timerVars == <<elapsed>>

\* what the per-frame callbacks write
frameVars == <<camera>>

\* the music players
audioVars == <<audio>>

\* the gravity-regime machine
gravityVars == <<regime, attractor, yawOffset, orientation, zoneEntry>>

-----------------------------------------------------------------------------
(* Bounds of the model *)

MaxEvents == 4

\* speed per axis, in whole units per tick, that a burst of thrust key
\* presses has built up before the first tick
BurstSpeed == 150

\* pointer positions the environment delivers, in pixels
CoordsX == {0, 80}

CoordsY == {0, 80, 160}

\* e.key values the environment delivers
Keys == {"w", "a", "s", "d", "q", "e", " ", "r", "f", "x", "W"}

-----------------------------------------------------------------------------
(* Fixed-point arithmetic *)

TrigScale == 10 * 10
DirScale == TrigScale * TrigScale
Unit == 2 * DirScale

\* round(100 * Math.sin(k * 0.1)), k = 0 .. 32
SinTab == <<0, 10, 20, 30, 39, 48, 56, 64, 72, 78, 84, 89, 93, 96, 99, 100,
            100, 99, 97, 95, 91, 86, 81, 75, 68, 60, 52, 43, 33, 24, 14, 4, -6>>

\* round(100 * Math.cos(k * 0.1)), k = 0 .. 32
CosTab == <<100, 100, 98, 96, 92, 88, 83, 76, 70, 62, 54, 45, 36, 27, 17, 7,
            -3, -13, -23, -32, -42, -50, -59, -67, -74, -80, -86, -90, -94,
            -97, -99, -100, -100>>

\* largest |c| the tables cover, in hundredths of a radian
TrigLimit == (Len(SinTab) - 1) * 10

Abs(n) == IF n < 0 THEN -n ELSE n

SinC(c) == IF c >= 0 THEN SinTab[(c \div 10) + 1] ELSE -SinTab[((-c) \div 10) + 1]

CosC(c) == CosTab[(Abs(c) \div 10) + 1]

\* Math.sin of the angle a.c * 0.01 + a.q * PI/2, scaled by TrigScale
Sin(a) ==
    LET m == a.q % 4 IN
    CASE m = 0 -> SinC(a.c)
      [] m = 1 -> CosC(a.c)
      [] m = 2 -> -SinC(a.c)
      [] m = 3 -> -CosC(a.c)

\* Math.cos of the angle a.c * 0.01 + a.q * PI/2, scaled by TrigScale
Cos(a) ==
    LET m == a.q % 4 IN
    CASE m = 0 -> CosC(a.c)
      [] m = 1 -> -SinC(a.c)
      [] m = 2 -> -CosC(a.c)
      [] m = 3 -> SinC(a.c)

Angle(c, q) == [c |-> c, q |-> q]

Zero == Angle(0, 0)

\* a + d hundredths of a radian
AddC(a, d) == [a EXCEPT !.c = @ + d]

\* Math.PI / 2 in millionths of a radian
HalfPiMicro == 1570796

\* the angle in millionths of a radian (to compare with +-PI/2)
Micro(a) == a.c * 10000 + a.q * HalfPiMicro

Vec(x, y, z) == [x |-> x, y |-> y, z |-> z]

Origin == Vec(0, 0, 0)

Neg(v) == Vec(-v.x, -v.y, -v.z)

Dot(u, v) == u.x * v.x + u.y * v.y + u.z * v.z

-----------------------------------------------------------------------------
(* Program constants *)

\* const sensitivity = 0.01: hundredths of a radian per pixel
sensitivity == 1

\* const rotationSpeed = 0.1: hundredths of a radian per key press
rotationSpeed == 10

\* const thrustPower = 0.5
thrustPower == Unit \div 2

\* const maxDistance = 400
maxDistance == 400 * Unit

-----------------------------------------------------------------------------
(* useState initial values: Game.jsx:295-300, 728-733 *)

InitialRotation == [x |-> Zero, y |-> Zero, z |-> Zero]

InitialMouse == [down |-> FALSE, x |-> 0, y |-> 0]

\* const cameraDistance = 15 (Game.jsx:137, 610)
cameraDistance == 15

\* <Canvas camera={{ position: [0, 0, 15], ... }}> (Game.jsx:437)
InitialCamera == [x |-> 0, y |-> 0, z |-> cameraDistance * Unit]

\* useState(0.5) (AudioPlayer), in tenths
InitialVolume == 5

\* an AudioPlayer as it mounts: useState(false), useState(0.5)
NewPlayer == [mounted |-> TRUE, isPlaying |-> FALSE, volume |-> InitialVolume]

\* an AudioPlayer that is not in the tree: its state and its <audio> element
\* are gone
Unmounted == [mounted |-> FALSE, isPlaying |-> FALSE, volume |-> 0]

\* the two <AudioPlayer/> elements: App's (App.jsx:21) and StartScreen's
\* (StartScreen.jsx:84)
Players == {"app", "menu"}

\* the start screen is shown: both players are mounted
InitialAudio == [app |-> NewPlayer, menu |-> NewPlayer]

\* no attractor is referenced
NoAttractor == "none"

\* the vertical of the fixed world frame
WorldFrame == "world"

\* An orientation of the regime machine: pitch x, yaw y and roll z about
\* the vertical `frame` (the world's, or the one of an attractor).
Oriented(x, y, z, frame) == [x |-> x, y |-> y, z |-> z, frame |-> frame]

\* identity orientation at scene start
InitialOrientation == Oriented(Zero, Zero, Zero, WorldFrame)

NoListeners ==
    [keydown |-> 0, mousedown |-> 0, mouseup |-> 0, mousemove |-> 0, interval |-> 0]

\* the three useEffect bodies have run once
MountedListeners ==
    [keydown |-> 1, mousedown |-> 1, mouseup |-> 1, mousemove |-> 1, interval |-> 1]

\* what the model remembers of the event handled last: its type, e.key of a
\* key event (for a tick: the key still held down while it fired), and
\* clientX, clientY of a pointer event
Event(type, key, x, y) == [type |-> type, key |-> key, x |-> x, y |-> y]

-----------------------------------------------------------------------------
(* handleKeyDown's direction vectors, Game.jsx:344-352, 776-784.            *)
(* Components are scaled by DirScale; a single sine or cosine is brought    *)
(* to that scale with one factor TrigScale.                                 *)

forward(rot) ==
    Vec(-(Sin(rot.y) * Cos(rot.x)), Sin(rot.x) * TrigScale, -(Cos(rot.y) * Cos(rot.x)))

right(rot) == Vec(forward(rot).z, 0, -forward(rot).x)

up(rot) ==
    Vec(Cos(rot.y) * Sin(rot.x), -(Cos(rot.x) * TrigScale), Sin(rot.y) * Sin(rot.x))

ThrustKeys == {"w", "s", "a", "d", "q", "e"}

\* Game.jsx:355-362, 787-794
thrusts(rot, key) ==
    CASE key = "w" -> forward(rot)
      [] key = "s" -> Neg(forward(rot))
      [] key = "a" -> right(rot)
      [] key = "d" -> Neg(right(rot))
      [] key = "q" -> up(rot)
      [] key = "e" -> Neg(up(rot))

\* e.key.toLowerCase() on the keys the model delivers
toLowerCase(k) == IF k = "W" THEN "w" ELSE k

\* Game.jsx:366-370: prev + thrusts[key] * thrustPower
AddThrust(prev, dir) ==
    Vec(prev.x + (dir.x * thrustPower) \div DirScale,
        prev.y + (dir.y * thrustPower) \div DirScale,
        prev.z + (dir.z * thrustPower) \div DirScale)

\* a brake that halves the velocity instead of zeroing it
brake_decay(prev) == Vec(prev.x \div 2, prev.y \div 2, prev.z \div 2)

\* Game.jsx:372: setCharacterVelocity({ x: 0, y: 0, z: 0 })
brake(prev) == Origin

\* a roll key that turns the body about its y axis
Roll_aboutY(rot, d) == [rot EXCEPT !.y = AddC(@, d)]

\* Game.jsx:375-384: roll keys (version 1 only)
Roll(rot, d) == [rot EXCEPT !.z = AddC(@, d)]

-----------------------------------------------------------------------------
(* handleMouseMove's rotation update, Game.jsx:319-332 and 752-765 *)

\* Math.max(-Math.PI/2, Math.min(Math.PI/2, p)), version 2 (Game.jsx:754)
ClampPitch(p) ==
    IF Micro(p) > HalfPiMicro THEN Angle(0, 1)
    ELSE IF Micro(p) < -HalfPiMicro THEN Angle(0, -1)
    ELSE p

\* a pitch that is clamped in version 1 too
newPitch_clampAlways(v, prev, deltaY) ==
    ClampPitch(AddC(prev.x, -(deltaY * sensitivity)))

newPitch(v, prev, deltaY) ==
    IF v = 1 THEN AddC(prev.x, -(deltaY * sensitivity))
    ELSE ClampPitch(AddC(prev.x, -(deltaY * sensitivity)))

\* a yaw that turns the other way
newYaw_inverted(prev, deltaX) == AddC(prev.y, deltaX * sensitivity)

newYaw(prev, deltaX) == AddC(prev.y, -(deltaX * sensitivity))

DragRotation(v, prev, deltaX, deltaY) ==
    [x |-> newPitch(v, prev, deltaY), y |-> newYaw(prev, deltaX), z |-> Zero]

-----------------------------------------------------------------------------
(* The physics interval's position update, Game.jsx:413-428, 833-848 *)

Min(a, b) == IF a < b THEN a ELSE b

Max(a, b) == IF a > b THEN a ELSE b

\* a clamp that forgets the lower bound
ClampAxis_upperOnly(c) == Min(maxDistance, c)

ClampAxis(c) == Max(-maxDistance, Min(maxDistance, c))

\* a tick that scales the velocity by the 16 ms period
TickPosition_dt(prev, velocity) ==
    Vec(ClampAxis(prev.x + (velocity.x * 16) \div 1000),
        ClampAxis(prev.y + (velocity.y * 16) \div 1000),
        ClampAxis(prev.z + (velocity.z * 16) \div 1000))

TickPosition(prev, velocity) ==
    Vec(ClampAxis(prev.x + velocity.x),
        ClampAxis(prev.y + velocity.y),
        ClampAxis(prev.z + velocity.z))

-----------------------------------------------------------------------------
(* Initial state: App shows the StartScreen, no Game is mounted *)

Init ==
    /\ version \in {1, 2}
    /\ gameStarted = FALSE
    /\ characterRotation = InitialRotation
    /\ characterVelocity = Origin
    /\ characterPosition = Origin
    /\ isMouseDown = FALSE
    /\ lastMouseX = 0
    /\ lastMouseY = 0
    /\ keydownClosure = InitialRotation
    /\ mouseClosure = InitialMouse
    /\ intervalClosure = Origin
    /\ live = NoListeners
    /\ nEvents = 0
    /\ lastEvent = Event("init", "", 0, 0)
    /\ elapsed = 0
    /\ camera = InitialCamera
    /\ audio = InitialAudio
    /\ regime = "Free"
    /\ attractor = NoAttractor
    /\ yawOffset = 0
    /\ orientation = InitialOrientation
    /\ zoneEntry = InitialOrientation

-----------------------------------------------------------------------------
(* App.jsx *)

\* a start that keeps the position of the previous session
handleStartGame_keepPosition ==
    /\ ~gameStarted
    /\ gameStarted' = TRUE
    /\ characterRotation' = InitialRotation
    /\ characterVelocity' = Origin
    /\ isMouseDown' = FALSE
    /\ lastMouseX' = 0
    /\ lastMouseY' = 0
    /\ keydownClosure' = InitialRotation
    /\ mouseClosure' = InitialMouse
    /\ intervalClosure' = Origin
    /\ live' = MountedListeners
    /\ lastEvent' = Event("start", "", 0, 0)
    /\ UNCHANGED <<version, characterPosition, nEvents>>

\* App.jsx:9-11 and the mount of <Game/> (App.jsx:37-38): every useState
\* starts from its initial value and the three effects run
handleStartGame ==
    /\ ~gameStarted
    /\ gameStarted' = TRUE
    /\ characterRotation' = InitialRotation
    /\ characterVelocity' = Origin
    /\ characterPosition' = Origin
    /\ isMouseDown' = FALSE
    /\ lastMouseX' = 0
    /\ lastMouseY' = 0
    /\ keydownClosure' = InitialRotation
    /\ mouseClosure' = InitialMouse
    /\ intervalClosure' = Origin
    /\ live' = MountedListeners
    /\ lastEvent' = Event("start", "", 0, 0)
    /\ UNCHANGED <<version, nEvents>>

\* an unmount whose physics effect returns no cleanup: the interval is never
\* cleared
handleBackToMenu_noClearInterval ==
    /\ gameStarted
    /\ gameStarted' = FALSE
    /\ live' = [NoListeners EXCEPT !.interval = live.interval]
    /\ lastEvent' = Event("back", "", 0, 0)
    /\ UNCHANGED <<version, gameState, closures, nEvents>>

\* App.jsx:13-15 and the unmount of <Game/>: the effects' cleanups run
\* (Game.jsx:392-394, 403-407, 431); the component's state is dropped
handleBackToMenu ==
    /\ gameStarted
    /\ gameStarted' = FALSE
    /\ live' = NoListeners
    /\ lastEvent' = Event("back", "", 0, 0)
    /\ UNCHANGED <<version, gameState, closures, nEvents>>

-----------------------------------------------------------------------------
(* Game.jsx handlers *)

Deliver(type, key, x, y) ==
    /\ nEvents < MaxEvents
    /\ nEvents' = nEvents + 1
    /\ lastEvent' = Event(type, key, x, y)

\* the key pressed last, while nothing but ticks followed its keydown
HeldKey == IF lastEvent.type \in {"keydown", "tick"} THEN lastEvent.key ELSE ""

\* a key handler whose physics interval is set at the mount only, so that it
\* keeps the velocity of the render that set it
handleKeyDown_intervalSetOnce(k) ==
    LET key == toLowerCase(k) IN
    /\ live.keydown > 0
    /\ Deliver("keydown", k, 0, 0)
    /\ (key \in {"r", "f"} /\ version = 1) =>
            Abs(characterRotation.z.c) + rotationSpeed <= TrigLimit
    /\ IF key \in ThrustKeys
       THEN /\ characterVelocity' =
                   AddThrust(characterVelocity, thrusts(keydownClosure, key))
            /\ UNCHANGED <<characterRotation, keydownClosure>>
       ELSE IF key = " "
       THEN /\ characterVelocity' = brake(characterVelocity)
            /\ UNCHANGED <<characterRotation, keydownClosure>>
       ELSE IF key = "r" /\ version = 1
       THEN /\ characterRotation' = Roll(characterRotation, -rotationSpeed)
            /\ keydownClosure' = Roll(keydownClosure, -rotationSpeed)
            /\ UNCHANGED characterVelocity
       ELSE IF key = "f" /\ version = 1
       THEN /\ characterRotation' = Roll(characterRotation, rotationSpeed)
            /\ keydownClosure' = Roll(keydownClosure, rotationSpeed)
            /\ UNCHANGED characterVelocity
       ELSE UNCHANGED <<characterRotation, characterVelocity, keydownClosure>>
    /\ UNCHANGED <<version, gameStarted, characterPosition, isMouseDown,
                   lastMouseX, lastMouseY, mouseClosure, intervalClosure, live>>

\* Game.jsx:340-386 (version 1), 773-806 (version 2), and the re-run of the
\* effects whose dependency changed: [characterRotation] (389-395) and
\* [characterVelocity] (411-432)
handleKeyDown(k) ==
    LET key == toLowerCase(k) IN
    /\ live.keydown > 0
    /\ Deliver("keydown", k, 0, 0)
    /\ (key \in {"r", "f"} /\ version = 1) =>
            Abs(characterRotation.z.c) + rotationSpeed <= TrigLimit
    /\ IF key \in ThrustKeys
       THEN /\ characterVelocity' =
                   AddThrust(characterVelocity, thrusts(keydownClosure, key))
            /\ intervalClosure' = characterVelocity'
            /\ UNCHANGED <<characterRotation, keydownClosure>>
       ELSE IF key = " "
       THEN /\ characterVelocity' = brake(characterVelocity)
            /\ intervalClosure' = characterVelocity'
            /\ UNCHANGED <<characterRotation, keydownClosure>>
       ELSE IF key = "r" /\ version = 1
       THEN /\ characterRotation' = Roll(characterRotation, -rotationSpeed)
            /\ keydownClosure' = Roll(keydownClosure, -rotationSpeed)
            /\ UNCHANGED <<characterVelocity, intervalClosure>>
       ELSE IF key = "f" /\ version = 1
       THEN /\ characterRotation' = Roll(characterRotation, rotationSpeed)
            /\ keydownClosure' = Roll(keydownClosure, rotationSpeed)
            /\ UNCHANGED <<characterVelocity, intervalClosure>>
       ELSE UNCHANGED <<characterRotation, characterVelocity, keydownClosure,
                        intervalClosure>>
    /\ UNCHANGED <<version, gameStarted, characterPosition, isMouseDown,
                   lastMouseX, lastMouseY, mouseClosure, live>>

\* The key pressed last is let go.  Game registers no keyup listener
\* (Game.jsx:389-395), so no handler runs.
KeyUp ==
    /\ gameStarted
    /\ HeldKey # ""
    /\ lastEvent' = Event("keyup", HeldKey, 0, 0)
    /\ UNCHANGED <<version, gameStarted, gameState, closures, live, nEvents>>

\* a press that engages the drag without recording where it was pressed
handleMouseDown_noCoords(clientX, clientY) ==
    /\ live.mousedown > 0
    /\ Deliver("mousedown", "", clientX, clientY)
    /\ isMouseDown' = TRUE
    /\ mouseClosure' = [mouseClosure EXCEPT !.down = TRUE]
    /\ UNCHANGED <<version, gameStarted, characterRotation, characterVelocity,
                   characterPosition, lastMouseX, lastMouseY, keydownClosure,
                   intervalClosure, live>>

\* Game.jsx:303-307 and the re-run of the mouse effect (398-408)
handleMouseDown(clientX, clientY) ==
    /\ live.mousedown > 0
    /\ Deliver("mousedown", "", clientX, clientY)
    /\ isMouseDown' = TRUE
    /\ lastMouseX' = clientX
    /\ lastMouseY' = clientY
    /\ mouseClosure' = [down |-> TRUE, x |-> clientX, y |-> clientY]
    /\ UNCHANGED <<version, gameStarted, characterRotation, characterVelocity,
                   characterPosition, keydownClosure, intervalClosure, live>>

\* Game.jsx:309-311 and the re-run of the mouse effect (398-408)
handleMouseUp ==
    /\ live.mouseup > 0
    /\ Deliver("mouseup", "", 0, 0)
    /\ isMouseDown' = FALSE
    /\ mouseClosure' = [mouseClosure EXCEPT !.down = FALSE]
    /\ UNCHANGED <<version, gameStarted, characterRotation, characterVelocity,
                   characterPosition, lastMouseX, lastMouseY, keydownClosure,
                   intervalClosure, live>>

\* Game.jsx:313-337 (version 1), 746-770 (version 2).  The updates are
\* queued; the render and the effects follow in Commit.
handleMouseMove(clientX, clientY) ==
    /\ live.mousemove > 0
    /\ Deliver("mousemove", "", clientX, clientY)
    /\ IF mouseClosure.down
       THEN LET deltaX == clientX - mouseClosure.x
                deltaY == clientY - mouseClosure.y
                next == DragRotation(version, characterRotation, deltaX, deltaY)
            IN  /\ Abs(next.x.c) <= TrigLimit
                /\ Abs(next.y.c) <= TrigLimit
                /\ characterRotation' = next
                /\ lastMouseX' = clientX
                /\ lastMouseY' = clientY
       ELSE UNCHANGED <<characterRotation, lastMouseX, lastMouseY>>
    /\ UNCHANGED <<version, gameStarted, characterVelocity, characterPosition,
                   isMouseDown, closures, live>>

\* React renders the pending mousemove updates and re-runs the effects
\* whose dependencies changed: the keydown listener (Game.jsx:389-395) and
\* the mouse listeners (398-408) are removed and registered again
Commit ==
    /\ gameStarted
    /\ \/ keydownClosure # characterRotation
       \/ mouseClosure # [down |-> isMouseDown, x |-> lastMouseX, y |-> lastMouseY]
    /\ keydownClosure' = characterRotation
    /\ mouseClosure' = [down |-> isMouseDown, x |-> lastMouseX, y |-> lastMouseY]
    /\ lastEvent' = Event("commit", "", 0, 0)
    /\ UNCHANGED <<version, gameStarted, gameState, intervalClosure, live, nEvents>>

\* a tick that itself applies the thrust of the key held down
physicsInterval_heldThrust ==
    /\ live.interval > 0
    /\ Deliver("tick", HeldKey, 0, 0)
    /\ characterVelocity' =
           IF toLowerCase(HeldKey) \in ThrustKeys
           THEN AddThrust(characterVelocity, thrusts(keydownClosure, toLowerCase(HeldKey)))
           ELSE characterVelocity
    /\ intervalClosure' = characterVelocity'
    /\ characterPosition' = TickPosition(characterPosition, characterVelocity')
    /\ UNCHANGED <<version, gameStarted, characterRotation, isMouseDown,
                   lastMouseX, lastMouseY, keydownClosure, mouseClosure, live>>

\* a tick that pulls the velocity down before it integrates the position
physicsInterval_gravity ==
    /\ live.interval > 0
    /\ Deliver("tick", HeldKey, 0, 0)
    /\ characterVelocity' = [characterVelocity EXCEPT !.y = @ - thrustPower]
    /\ intervalClosure' = characterVelocity'
    /\ characterPosition' = TickPosition(characterPosition, characterVelocity')
    /\ UNCHANGED <<version, gameStarted, characterRotation, isMouseDown,
                   lastMouseX, lastMouseY, keydownClosure, mouseClosure, live>>

\* a tick that stops the body on every axis on which the clamp acts
physicsInterval_stopAtWall ==
    LET next == TickPosition(characterPosition, intervalClosure)
        Stopped(c, sum, v) == IF c = sum THEN v ELSE 0 IN
    /\ live.interval > 0
    /\ Deliver("tick", HeldKey, 0, 0)
    /\ characterPosition' = next
    /\ characterVelocity' =
           Vec(Stopped(next.x, characterPosition.x + intervalClosure.x, characterVelocity.x),
               Stopped(next.y, characterPosition.y + intervalClosure.y, characterVelocity.y),
               Stopped(next.z, characterPosition.z + intervalClosure.z, characterVelocity.z))
    /\ intervalClosure' = characterVelocity'
    /\ UNCHANGED <<version, gameStarted, characterRotation,
                   isMouseDown, lastMouseX, lastMouseY, keydownClosure,
                   mouseClosure, live>>

\* the setInterval callback, Game.jsx:412-429, 832-849
physicsInterval ==
    /\ live.interval > 0
    /\ Deliver("tick", HeldKey, 0, 0)
    /\ characterPosition' = TickPosition(characterPosition, intervalClosure)
    /\ UNCHANGED <<version, gameStarted, characterRotation, characterVelocity,
                   isMouseDown, lastMouseX, lastMouseY, closures, live>>

\* The handlers of the Game in any order and at any time.  Time is not
\* tracked here (a tick may fire at any moment), no frame is rendered, and
\* the scene has no gravity zone: the regime stays Free.
Untracked == UNCHANGED <<timerVars, frameVars, gravityVars, audioVars>>

Next ==
    \/ handleStartGame /\ Untracked
    \/ handleBackToMenu /\ Untracked
    \/ \E k \in Keys : handleKeyDown(k) /\ Untracked
    \/ KeyUp /\ Untracked
    \/ \E x \in CoordsX, y \in CoordsY : handleMouseDown(x, y) /\ Untracked
    \/ handleMouseUp /\ Untracked
    \/ \E x \in CoordsX, y \in CoordsY : handleMouseMove(x, y) /\ Untracked
    \/ Commit /\ Untracked
    \/ physicsInterval /\ Untracked

Spec == Init /\ [][Next]_vars

-----------------------------------------------------------------------------
(* The Game in fast flight.  The velocity has no limit (Game.jsx:366-370),  *)
(* and every thrust key press sets the physics interval anew, so a burst of *)
(* presses of d, e and w leaves the body at the origin with a large         *)
(* velocity.  From there a few ticks reach the boundary.                    *)

BurstSpeeds == {0, BurstSpeed * Unit, 2 * BurstSpeed * Unit}

BurstVelocities ==
    {Vec(x, y, -z) : x \in BurstSpeeds, y \in BurstSpeeds, z \in BurstSpeeds \ {0}}

BoundaryInit ==
    /\ version \in {1, 2}
    /\ gameStarted = TRUE
    /\ characterRotation = InitialRotation
    /\ characterVelocity \in BurstVelocities
    /\ characterPosition = Origin
    /\ isMouseDown = FALSE
    /\ lastMouseX = 0
    /\ lastMouseY = 0
    /\ keydownClosure = InitialRotation
    /\ mouseClosure = InitialMouse
    /\ intervalClosure = characterVelocity
    /\ live = MountedListeners
    /\ nEvents = 0
    /\ lastEvent = Event("keydown", "w", 0, 0)
    /\ elapsed = 0
    /\ camera = InitialCamera
    /\ audio = [InitialAudio EXCEPT !.menu = Unmounted]
    /\ regime = "Free"
    /\ attractor = NoAttractor
    /\ yawOffset = 0
    /\ orientation = InitialOrientation
    /\ zoneEntry = InitialOrientation

BoundaryKeys == {"w", "s", "a", "q", " "}

BoundaryNext ==
    \/ \E k \in BoundaryKeys : handleKeyDown(k) /\ Untracked
    \/ KeyUp /\ Untracked
    \/ physicsInterval /\ Untracked

BoundarySpec == BoundaryInit /\ [][BoundaryNext]_vars

-----------------------------------------------------------------------------
(* The Game with the clock of its physics interval.  The interval is set    *)
(* by an effect whose dependency is characterVelocity (Game.jsx:411-432):   *)
(* every key press that writes the velocity runs the cleanup               *)
(* (clearInterval) and sets a new 16 ms interval, which starts to count     *)
(* from zero.                                                               *)

\* setInterval(..., 16) (Game.jsx:428)
tickPeriod == 16

\* the clock advances in steps of half a period
TimeStep == tickPeriod \div 2

\* keys delivered while the clock is tracked
TimedKeys == {"w", " ", "r", "x"}

\* time passes; a due tick fires before any more time passes
Elapse ==
    /\ live.interval > 0
    /\ elapsed < tickPeriod
    /\ elapsed' = elapsed + TimeStep
    /\ UNCHANGED <<gameVars, nEvents, lastEvent, frameVars, gravityVars, audioVars>>

\* App.jsx:9-11: the mount sets the first interval
TimedStart ==
    /\ handleStartGame
    /\ elapsed' = 0
    /\ UNCHANGED <<frameVars, gravityVars, audioVars>>

\* App.jsx:13-15: the unmount clears the interval
TimedBack ==
    /\ handleBackToMenu
    /\ UNCHANGED <<timerVars, frameVars, gravityVars, audioVars>>

\* a key press between two ticks (a tick that is due fires first); the
\* thrust keys and the brake write characterVelocity, a new object each
\* time, so the effect clears the interval and sets it anew
TimedKeyDown(k) ==
    /\ elapsed < tickPeriod
    /\ handleKeyDown(k)
    /\ elapsed' = IF toLowerCase(k) \in ThrustKeys \cup {" "} THEN 0 ELSE elapsed
    /\ UNCHANGED <<frameVars, gravityVars, audioVars>>

\* the interval fires when its period has elapsed and counts anew
TimedTick ==
    /\ elapsed >= tickPeriod
    /\ physicsInterval
    /\ elapsed' = 0
    /\ UNCHANGED <<frameVars, gravityVars, audioVars>>

TimedNext ==
    \/ TimedStart
    \/ TimedBack
    \/ \E k \in TimedKeys : TimedKeyDown(k)
    \/ Elapse
    \/ TimedTick

TimedSpec == Init /\ [][TimedNext]_vars

-----------------------------------------------------------------------------
(* The music players.  AudioPlayer keeps isPlaying and volume in its own    *)
(* useState and owns its <audio> element; App renders one above the         *)
(* gameStarted switch and StartScreen renders another one, which mounts and *)
(* unmounts with the start screen.                                          *)

\* positions of the volume slider the environment delivers (min 0, max 1,
\* step 0.1), in tenths
Volumes == {0, InitialVolume, 2 * InitialVolume}

\* togglePlay of the player p: pause() or play() and the flag
togglePlay(p) ==
    /\ audio[p].mounted
    /\ Deliver("togglePlay", p, 0, 0)
    /\ audio' = [audio EXCEPT ![p].isPlaying = ~@]
    /\ UNCHANGED <<gameVars, timerVars, frameVars, gravityVars>>

\* handleVolumeChange of the player p, and the effect that copies the volume
\* to the <audio> element
handleVolumeChange(p, newVolume) ==
    /\ audio[p].mounted
    /\ Deliver("volume", p, newVolume, 0)
    /\ audio' = [audio EXCEPT ![p].volume = newVolume]
    /\ UNCHANGED <<gameVars, timerVars, frameVars, gravityVars>>

\* [START]: App renders <Game/> in place of <StartScreen/>, whose
\* AudioPlayer unmounts
startGame ==
    /\ handleStartGame
    /\ audio' = [audio EXCEPT !.menu = Unmounted]
    /\ UNCHANGED <<timerVars, frameVars, gravityVars>>

\* MENU: App renders <StartScreen/> again, with a new AudioPlayer
backToMenu ==
    /\ handleBackToMenu
    /\ audio' = [audio EXCEPT !.menu = NewPlayer]
    /\ UNCHANGED <<timerVars, frameVars, gravityVars>>

AudioNext ==
    \/ startGame
    \/ backToMenu
    \/ \E p \in Players : togglePlay(p)
    \/ \E p \in Players, v \in Volumes : handleVolumeChange(p, v)

AudioSpec == Init /\ [][AudioNext]_vars

-----------------------------------------------------------------------------
(* The rotation the scene applies to the body and to the camera            *)
(* (Character, Game.jsx:67-95; CameraRotationSync, Game.jsx:109-126): a    *)
(* quaternion built as yaw about (0,1,0), times pitch about (1,0,0), times  *)
(* roll about (0,0,1), each by setFromAxisAngle (right-handed).  Applied to *)
(* a vector it turns it by the roll first, then the pitch, then the yaw.    *)
(* Vectors are scaled by DirScale.                                          *)

\* setFromAxisAngle((0, 0, 1), a) applied to v
RotZ(a, v) ==
    Vec((Cos(a) * v.x - Sin(a) * v.y) \div TrigScale,
        (Sin(a) * v.x + Cos(a) * v.y) \div TrigScale,
        v.z)

\* setFromAxisAngle((1, 0, 0), a) applied to v
RotX(a, v) ==
    Vec(v.x,
        (Cos(a) * v.y - Sin(a) * v.z) \div TrigScale,
        (Sin(a) * v.y + Cos(a) * v.z) \div TrigScale)

\* a yaw that turns clockwise about the y axis
RotY_clockwise(a, v) ==
    Vec((Cos(a) * v.x - Sin(a) * v.z) \div TrigScale,
        v.y,
        (Sin(a) * v.x + Cos(a) * v.z) \div TrigScale)

\* setFromAxisAngle((0, 1, 0), a) applied to v
RotY(a, v) ==
    Vec((Cos(a) * v.x + Sin(a) * v.z) \div TrigScale,
        v.y,
        (Cos(a) * v.z - Sin(a) * v.x) \div TrigScale)

\* the quaternion yaw * pitch * roll of the rotation rot, applied to v
Rotate(rot, v) == RotY(rot.y, RotX(rot.x, RotZ(rot.z, v)))

\* basisVectors(q): the images of the canonical frame forward (0,0,-1),
\* right (1,0,0), up (0,1,0)
basisVectors(rot) ==
    [forward |-> Rotate(rot, Vec(0, 0, -DirScale)),
     right |-> Rotate(rot, Vec(DirScale, 0, 0)),
     up |-> Rotate(rot, Vec(0, DirScale, 0))]

-----------------------------------------------------------------------------
(* The quaternion Character hands to the scene (Game.jsx:67-95): an         *)
(* identity quaternion multiplied by the yaw, pitch and roll quaternions    *)
(* and by the model's initial half turn, each made by setFromAxisAngle.     *)
(* Components are scaled by DirScale and rounded at every step.             *)

\* round(10000 * Math.sin(k * 0.05)), k = 0 .. 64
HalfSinTab == <<
    0, 500, 998, 1494, 1987, 2474, 2955, 3429, 3894, 4350, 4794,
    5227, 5646, 6052, 6442, 6816, 7174, 7513, 7833, 8134, 8415,
    8674, 8912, 9128, 9320, 9490, 9636, 9757, 9854, 9927, 9975,
    9998, 9996, 9969, 9917, 9840, 9738, 9613, 9463, 9290, 9093,
    8874, 8632, 8369, 8085, 7781, 7457, 7115, 6755, 6378, 5985,
    5577, 5155, 4720, 4274, 3817, 3350, 2875, 2392, 1904, 1411,
    915, 416, -84, -584>>

\* round(10000 * Math.cos(k * 0.05)), k = 0 .. 64
HalfCosTab == <<
    10000, 9988, 9950, 9888, 9801, 9689, 9553, 9394, 9211, 9004,
    8776, 8525, 8253, 7961, 7648, 7317, 6967, 6600, 6216, 5817,
    5403, 4976, 4536, 4085, 3624, 3153, 2675, 2190, 1700, 1205,
    707, 208, -292, -791, -1288, -1782, -2272, -2756, -3233,
    -3702, -4161, -4611, -5048, -5474, -5885, -6282, -6663,
    -7027, -7374, -7702, -8011, -8301, -8569, -8816, -9041,
    -9243, -9422, -9578, -9710, -9817, -9900, -9958, -9991,
    -10000, -9983>>

\* sin and cos of c / 2 hundredths of a radian
HalfSinC(c) ==
    IF c >= 0 THEN HalfSinTab[(c \div 5) + 1] ELSE -HalfSinTab[((-c) \div 5) + 1]

HalfCosC(c) == HalfCosTab[(Abs(c) \div 5) + 1]

\* n / sqrt(2)
OverRoot2(n) == (n * 7071) \div DirScale

\* Math.sin(a / 2) of the angle a.c * 0.01 + a.q * PI/2, scaled by DirScale
HalfSin(a) ==
    LET m == a.q % 8
        s == HalfSinC(a.c)
        c == HalfCosC(a.c) IN
    CASE m = 0 -> s
      [] m = 1 -> OverRoot2(s + c)
      [] m = 2 -> c
      [] m = 3 -> OverRoot2(c - s)
      [] m = 4 -> -s
      [] m = 5 -> -OverRoot2(s + c)
      [] m = 6 -> -c
      [] m = 7 -> OverRoot2(s - c)

\* Math.cos(a / 2) of the angle a.c * 0.01 + a.q * PI/2, scaled by DirScale
HalfCos(a) ==
    LET m == a.q % 8
        s == HalfSinC(a.c)
        c == HalfCosC(a.c) IN
    CASE m = 0 -> c
      [] m = 1 -> OverRoot2(c - s)
      [] m = 2 -> -s
      [] m = 3 -> -OverRoot2(s + c)
      [] m = 4 -> -c
      [] m = 5 -> OverRoot2(s - c)
      [] m = 6 -> s
      [] m = 7 -> OverRoot2(s + c)

Quat(x, y, z, w) == [x |-> x, y |-> y, z |-> z, w |-> w]

\* new THREE.Quaternion()
IdentityQuat == Quat(0, 0, 0, DirScale)

\* Math.PI
Pi == Angle(0, 2)

\* Quaternion.setFromAxisAngle(axis, a); the axis has whole components
setFromAxisAngle(axis, a) ==
    Quat(axis.x * HalfSin(a), axis.y * HalfSin(a), axis.z * HalfSin(a),
         HalfCos(a))

\* Quaternion.multiply: the Hamilton product a * b
multiply(a, b) ==
    Quat((a.x * b.w + a.w * b.x + a.y * b.z - a.z * b.y) \div DirScale,
         (a.y * b.w + a.w * b.y + a.z * b.x - a.x * b.z) \div DirScale,
         (a.z * b.w + a.w * b.z + a.x * b.y - a.y * b.x) \div DirScale,
         (a.w * b.w - a.x * b.x - a.y * b.y - a.z * b.z) \div DirScale)

\* a Character whose pitch axis is (1, 1, 0), which is not of unit length
quaternion_skewPitchAxis(rotation) ==
    LET yawQuat == setFromAxisAngle(Vec(0, 1, 0), rotation.y)
        pitchQuat == setFromAxisAngle(Vec(1, 1, 0), rotation.x)
        rollQuat == setFromAxisAngle(Vec(0, 0, 1), rotation.z)
        initialQuat == setFromAxisAngle(Vec(0, 1, 0), Pi) IN
    multiply(multiply(multiply(multiply(IdentityQuat, yawQuat), pitchQuat),
                      rollQuat), initialQuat)

\* the quaternion Character's useFrame copies to the scene
quaternion(rotation) ==
    LET yawQuat == setFromAxisAngle(Vec(0, 1, 0), rotation.y)
        pitchQuat == setFromAxisAngle(Vec(1, 0, 0), rotation.x)
        rollQuat == setFromAxisAngle(Vec(0, 0, 1), rotation.z)
        initialQuat == setFromAxisAngle(Vec(0, 1, 0), Pi) IN
    multiply(multiply(multiply(multiply(IdentityQuat, yawQuat), pitchQuat),
                      rollQuat), initialQuat)

-----------------------------------------------------------------------------
(* The gravity-regime machine.  The Game of Game.jsx flies in zero gravity  *)
(* only; the regime machine of the gravity-zone experiments is planned in   *)
(* ContextTechnical.md (GameContext, zone detection) and is modelled here   *)
(* from the design: the transition table and the per-tick update of the     *)
(* Locomotion & Gravity State Machine, and the two steering modes of the    *)
(* Look Controller.                                                         *)

Regimes == {"Free", "Planar", "Radial"}

\* the attractors of the scene
Attractors == {"asteroid1", "asteroid2"}

\* pointer deltas of the drag samples, in pixels
DeltasX == {-80, 0, 80}

DeltasY == {0, 80}

\* orientations a free flight can have reached when the first zone event
\* arrives
PriorOrientations ==
    {Oriented(Angle(p, 0), Angle(w, 0), Angle(r, 0), WorldFrame) :
        p \in {0, 80}, w \in {0, 80}, r \in {0, -rotationSpeed}}

GravityInit ==
    /\ version = 1
    /\ gameStarted = FALSE
    /\ characterRotation = InitialRotation
    /\ characterVelocity = Origin
    /\ characterPosition = Origin
    /\ isMouseDown = FALSE
    /\ lastMouseX = 0
    /\ lastMouseY = 0
    /\ keydownClosure = InitialRotation
    /\ mouseClosure = InitialMouse
    /\ intervalClosure = Origin
    /\ live = NoListeners
    /\ nEvents = 0
    /\ lastEvent = Event("init", "", 0, 0)
    /\ elapsed = 0
    /\ camera = InitialCamera
    /\ audio = InitialAudio
    /\ regime = "Free"
    /\ attractor = NoAttractor
    /\ yawOffset = 0
    /\ orientation \in PriorOrientations
    /\ zoneEntry = orientation

\* a zone event for which the transition table has no row
Ignored(name) ==
    /\ Deliver("ignored", name, 0, 0)
    /\ UNCHANGED <<gravityVars, gameVars, timerVars, frameVars, audioVars>>

\* "zero out any non-yaw rotation component": what is left is a yaw about
\* the world's vertical
YawOnly(o) == Oriented(Zero, o.y, Zero, WorldFrame)

\* an entry into a planar zone that leaves the orientation as it is
enterPlanarZone_keepOrientation ==
    \/ /\ regime = "Free"
       /\ Deliver("enterPlanarZone", "", 0, 0)
       /\ regime' = "Planar"
       /\ yawOffset' = 0
       /\ zoneEntry' = orientation
       /\ UNCHANGED <<orientation, attractor, gameVars, timerVars, frameVars, audioVars>>
    \/ /\ regime # "Free"
       /\ Ignored("enterPlanarZone")

\* Free -> Planar: reset yaw offset to 0; zero out any non-yaw rotation
\* component
enterPlanarZone ==
    \/ /\ regime = "Free"
       /\ Deliver("enterPlanarZone", "", 0, 0)
       /\ regime' = "Planar"
       /\ yawOffset' = 0
       /\ orientation' = YawOnly(orientation)
       /\ zoneEntry' = orientation
       /\ UNCHANGED <<attractor, gameVars, timerVars, frameVars, audioVars>>
    \/ /\ regime # "Free"
       /\ Ignored("enterPlanarZone")

\* an exit from a planar zone that drops any constrained regime to Free
exitPlanarZone_anyRegime ==
    \/ /\ regime # "Free"
       /\ Deliver("exitPlanarZone", "", 0, 0)
       /\ regime' = "Free"
       /\ UNCHANGED <<attractor, yawOffset, orientation, zoneEntry,
                      gameVars, timerVars, frameVars, audioVars>>
    \/ /\ regime = "Free"
       /\ Ignored("exitPlanarZone")

\* Planar -> Free: no orientation change
exitPlanarZone ==
    \/ /\ regime = "Planar"
       /\ Deliver("exitPlanarZone", "", 0, 0)
       /\ regime' = "Free"
       /\ UNCHANGED <<attractor, yawOffset, orientation, zoneEntry,
                      gameVars, timerVars, frameVars, audioVars>>
    \/ /\ regime # "Planar"
       /\ Ignored("exitPlanarZone")

\* an exit from the radial zone that keeps the attractor reference
exitRadialZone_keepAttractor ==
    \/ /\ regime = "Radial"
       /\ Deliver("exitRadialZone", "", 0, 0)
       /\ regime' = "Free"
       /\ yawOffset' = 0
       /\ UNCHANGED <<attractor, orientation, zoneEntry, gameVars, timerVars, frameVars, audioVars>>
    \/ /\ regime # "Radial"
       /\ Ignored("exitRadialZone")

\* Free/Planar -> Radial: reset yaw offset to 0; record attractor reference
enterRadialZone(a) ==
    \/ /\ regime \in {"Free", "Planar"}
       /\ Deliver("enterRadialZone", a, 0, 0)
       /\ regime' = "Radial"
       /\ yawOffset' = 0
       /\ attractor' = a
       /\ zoneEntry' = orientation
       /\ UNCHANGED <<orientation, gameVars, timerVars, frameVars, audioVars>>
    \/ /\ regime = "Radial"
       /\ Ignored("enterRadialZone")

\* Radial -> Free: clear attractor reference; reset yaw offset to 0
exitRadialZone ==
    \/ /\ regime = "Radial"
       /\ Deliver("exitRadialZone", "", 0, 0)
       /\ regime' = "Free"
       /\ attractor' = NoAttractor
       /\ yawOffset' = 0
       /\ UNCHANGED <<orientation, zoneEntry, gameVars, timerVars, frameVars, audioVars>>
    \/ /\ regime # "Radial"
       /\ Ignored("exitRadialZone")

\* Free mode of the Look Controller: pitch by -dy * sensitivity and yaw by
\* -dx * sensitivity, composed onto the running orientation
FreeLook(o, dx, dy) ==
    [o EXCEPT !.x = AddC(@, -(dy * sensitivity)), !.y = AddC(@, -(dx * sensitivity))]

\* a drag sample that steers freely in every regime
dragSample_freeLook(dx, dy) ==
    /\ Deliver("drag", "", dx, dy)
    /\ orientation' = FreeLook(orientation, dx, dy)
    /\ UNCHANGED <<regime, attractor, yawOffset, zoneEntry, gameVars, timerVars, frameVars, audioVars>>

\* One drag sample with delta (dx, dy).  Constrained mode (Planar, Radial):
\* the sample contributes only to the accumulated yaw offset, the pitch
\* input is discarded, the orientation is not written.
dragSample(dx, dy) ==
    /\ Deliver("drag", "", dx, dy)
    /\ IF regime = "Free"
       THEN /\ Abs(FreeLook(orientation, dx, dy).x.c) <= TrigLimit
            /\ Abs(FreeLook(orientation, dx, dy).y.c) <= TrigLimit
            /\ orientation' = FreeLook(orientation, dx, dy)
            /\ UNCHANGED yawOffset
       ELSE /\ Abs(yawOffset - dx * sensitivity) <= TrigLimit
            /\ yawOffset' = yawOffset - dx * sensitivity
            /\ UNCHANGED orientation
    /\ UNCHANGED <<regime, attractor, zoneEntry, gameVars, timerVars, frameVars, audioVars>>

\* Orientation resolution of the per-tick update.  Planar and Radial
\* recompute the orientation from scratch: upright about the vertical of
\* the regime (the world's, or the one of the attractor), turned by the
\* accumulated yaw offset.
Resolve(r, a, offset, o) ==
    CASE r = "Free" -> o
      [] r = "Planar" -> Oriented(Zero, Angle(offset, 0), Zero, WorldFrame)
      [] r = "Radial" -> Oriented(Zero, Angle(offset, 0), Zero, a)

\* the per-tick update, as far as it concerns the orientation
regimeTick ==
    /\ Deliver("regimeTick", "", 0, 0)
    /\ orientation' = Resolve(regime, attractor, yawOffset, orientation)
    /\ UNCHANGED <<regime, attractor, yawOffset, zoneEntry, gameVars, timerVars, frameVars, audioVars>>

GravityNext ==
    \/ enterPlanarZone
    \/ exitPlanarZone
    \/ \E a \in Attractors : enterRadialZone(a)
    \/ exitRadialZone
    \/ \E dx \in DeltasX, dy \in DeltasY : dragSample(dx, dy)
    \/ regimeTick

GravitySpec == GravityInit /\ [][GravityNext]_vars

-----------------------------------------------------------------------------
(* The chase camera: CameraRotationSync (Game.jsx:105-153, version 1) and   *)
(* ThirdPersonCamera (Game.jsx:607-633, version 2).  Both compute the same  *)
(* camera position in a useFrame callback, from the characterRotation and   *)
(* characterPosition props of the last render.                              *)

\* one DirScale-scaled component times a length, in position units
DirToUnit == Unit \div DirScale

\* backwardX, backwardY, backwardZ (Game.jsx:140-142; 620-622), by DirScale
backward(rot) ==
    Vec(Sin(rot.y) * Cos(rot.x), -(Sin(rot.x) * TrigScale), Cos(rot.y) * Cos(rot.x))

\* a camera kept at the fixed world offset of its initial position
CameraPosition_worldOffset(rot, pos) == Vec(pos.x, pos.y, pos.z + cameraDistance * Unit)

\* cameraX, cameraY, cameraZ (Game.jsx:145-147; 620-622)
CameraPosition(rot, pos) ==
    Vec(pos.x + backward(rot).x * cameraDistance * DirToUnit,
        pos.y + backward(rot).y * cameraDistance * DirToUnit,
        pos.z + backward(rot).z * cameraDistance * DirToUnit)

\* One rendered frame: the useFrame callback runs with the props of the
\* last render.  The rotation rendered last is the one the registered
\* keydown handler captured (keydownClosure).
useFrame ==
    /\ gameStarted
    /\ camera' = CameraPosition(keydownClosure, characterPosition)
    /\ lastEvent' = Event("frame", "", 0, 0)
    /\ UNCHANGED <<gameVars, nEvents, timerVars, gravityVars, audioVars>>

\* keys delivered while frames are rendered
CameraKeys == {"w", "q", " "}

\* the Game with its frames rendered; every mount creates the Canvas and
\* its camera anew (Game.jsx:436-437)
CameraNext ==
    \/ handleStartGame /\ camera' = InitialCamera /\ UNCHANGED <<timerVars, gravityVars, audioVars>>
    \/ handleBackToMenu /\ Untracked
    \/ \E k \in CameraKeys : handleKeyDown(k) /\ Untracked
    \/ \E x \in CoordsX, y \in CoordsY : handleMouseDown(x, y) /\ Untracked
    \/ \E x \in CoordsX, y \in CoordsY : handleMouseMove(x, y) /\ Untracked
    \/ Commit /\ Untracked
    \/ physicsInterval /\ Untracked
    \/ useFrame

CameraSpec == Init /\ [][CameraNext]_vars

-----------------------------------------------------------------------------
(* Properties *)

\* the step delivers a keydown whose lower-cased key is `key`
KeyDownStep(key) ==
    /\ nEvents' = nEvents + 1
    /\ lastEvent'.type = "keydown"
    /\ toLowerCase(lastEvent'.key) = key

TickStep == nEvents' = nEvents + 1 /\ lastEvent'.type = "tick"

Fresh ==
    /\ characterPosition = Origin
    /\ characterRotation = InitialRotation
    /\ characterVelocity = Origin
    /\ ~isMouseDown

\* C1: whenever App mounts the Game (first Start, or Start after Back to
\* Menu) position is the origin, pitch, yaw and roll are 0, velocity is 0
\* and no drag is engaged; and while the Game stays mounted the position
\* changes only in a tick, and then to position + velocity (clamped), so
\* no key, pointer or tick event resets it to the origin.
C1_StartFreshNeverReset ==
    [][ /\ (~gameStarted /\ gameStarted') => Fresh'
        /\ (gameStarted /\ gameStarted' /\ characterPosition' # characterPosition) =>
               /\ TickStep
               /\ characterPosition'.x = ClampAxis(characterPosition.x + characterVelocity.x)
               /\ characterPosition'.y = ClampAxis(characterPosition.y + characterVelocity.y)
               /\ characterPosition'.z = ClampAxis(characterPosition.z + characterVelocity.z)
      ]_vars

\* the Game has just been started again after events of an earlier session
C1_Witness == gameStarted /\ lastEvent.type = "start" /\ nEvents >= 2 /\ Fresh

\* C2: from the freshly started scene, one thrustForward key press gives
\* velocity (0,0,-thrustPower) and leaves position and orientation alone;
\* the tick that follows leaves the velocity and moves the position to
\* (0,0,-thrustPower).
C2_ForwardThrustThenTick ==
    [][ /\ (lastEvent.type = "start" /\ KeyDownStep("w")) =>
               /\ characterVelocity' = Vec(0, 0, -thrustPower)
               /\ characterPosition' = Origin
               /\ characterRotation' = InitialRotation
        /\ (/\ lastEvent.type = "keydown"
            /\ characterVelocity = Vec(0, 0, -thrustPower)
            /\ characterPosition = Origin
            /\ TickStep) =>
               /\ characterVelocity' = Vec(0, 0, -thrustPower)
               /\ characterPosition' = Vec(0, 0, -thrustPower)
      ]_vars

\* thrustForward and one tick, and nothing else, have happened
C2_Witness ==
    /\ nEvents = 2
    /\ lastEvent.type = "tick"
    /\ toLowerCase(lastEvent.key) = "w"
    /\ characterRotation = InitialRotation
    /\ characterVelocity = Vec(0, 0, -thrustPower)
    /\ characterPosition = Vec(0, 0, -thrustPower)

\* C3: a brake key press sets the velocity to zero whatever it was, and a
\* tick that finds the velocity zero (as every tick between the brake and
\* the next thrust does) leaves the position unchanged.
C3_BrakeZeroesVelocity ==
    [][ /\ KeyDownStep(" ") => characterVelocity' = Origin
        /\ (TickStep /\ characterVelocity = Origin) =>
               characterPosition' = characterPosition
      ]_vars

\* a tick right after a brake that stopped a body which had moved
C3_Witness ==
    /\ lastEvent.type = "tick"
    /\ lastEvent.key = " "
    /\ characterVelocity = Origin
    /\ characterPosition # Origin

\* the thrust a keydown of `key` adds: direction * thrustPower
ThrustAdded(from, to, dir) ==
    /\ (to.x - from.x) * DirScale = dir.x * thrustPower
    /\ (to.y - from.y) * DirScale = dir.y * thrustPower
    /\ (to.z - from.z) * DirScale = dir.z * thrustPower

MoveStep == nEvents' = nEvents + 1 /\ lastEvent'.type = "mousemove"

\* -d * sensitivity, in millionths of a radian
DragMicro(d) == -(d * sensitivity * 10000)

\* C5 as stated: every move sample received while the pointer is engaged,
\* with delta (dx, dy) from the handler's last-sampled coordinates, changes
\* pitch by -dy * sensitivity and yaw by -dx * sensitivity.
C5_DragChangesPitchAndYaw ==
    [][ (MoveStep /\ isMouseDown) =>
            /\ characterRotation'.x =
                   AddC(characterRotation.x, -((lastEvent'.y - mouseClosure.y) * sensitivity))
            /\ characterRotation'.y =
                   AddC(characterRotation.y, -((lastEvent'.x - mouseClosure.x) * sensitivity))
      ]_vars

\* pitch `to` is pitch `from` changed by -dy * sensitivity: exactly so in
\* version 1, and limited to [-PI/2, PI/2] in version 2
PitchDragged(from, to, dy) ==
    /\ version = 1 => Micro(to) = Micro(from) + DragMicro(dy)
    /\ version = 2 =>
           Micro(to) = Max(-HalfPiMicro, Min(HalfPiMicro, Micro(from) + DragMicro(dy)))

\* C5 as amended: such a sample changes yaw by -dx * sensitivity in both
\* versions; it changes pitch by -dy * sensitivity in version 1, and in
\* version 2 to that value limited to [-PI/2, PI/2].
C5_DragPitchYawPerVersion ==
    [][ (MoveStep /\ isMouseDown) =>
            /\ PitchDragged(characterRotation.x, characterRotation'.x,
                            lastEvent'.y - mouseClosure.y)
            /\ Micro(characterRotation'.y) =
                   Micro(characterRotation.y) + DragMicro(lastEvent'.x - mouseClosure.x)
      ]_vars

\* version 2: a sample has turned the yaw and run the pitch into +PI/2
C5_Witness ==
    /\ version = 2
    /\ lastEvent.type = "mousemove"
    /\ isMouseDown
    /\ characterRotation.x = Angle(0, 1)
    /\ characterRotation.y # Zero

\* C6 as stated: in both versions the pitch after a drag sample is the
\* pitch before it minus dy * sensitivity, never limited.
C6_PitchNeverClamped ==
    [][ (MoveStep /\ isMouseDown) =>
            Micro(characterRotation'.x) =
                Micro(characterRotation.x) + DragMicro(lastEvent'.y - mouseClosure.y)
      ]_vars

\* C6 as amended: version 1 never clamps the pitch (each sample adds
\* -dy * sensitivity, also beyond +-PI/2); version 2 keeps the pitch
\* within [-PI/2, PI/2].
C6_PitchUnclampedInVersion1 ==
    /\ [][ (MoveStep /\ isMouseDown /\ version = 1) =>
                Micro(characterRotation'.x) =
                    Micro(characterRotation.x) + DragMicro(lastEvent'.y - mouseClosure.y)
          ]_vars
    /\ [](version = 2 => Abs(Micro(characterRotation.x)) <= HalfPiMicro)

\* version 1 with the pitch beyond +90 degrees
C6_Witness ==
    /\ version = 1
    /\ lastEvent.type = "mousemove"
    /\ Micro(characterRotation.x) > HalfPiMicro

\* C7: a drag session lasts from a press to the next release: the engaged
\* flag changes only at a press, a release or a (re)start; a move sample
\* outside a session changes neither the orientation nor the last-sampled
\* coordinates; the first move sample after a press is measured from the
\* coordinates of that press.
C7_DragSession ==
    [][ /\ (isMouseDown' # isMouseDown) =>
               \/ lastEvent'.type = "mousedown" /\ isMouseDown'
               \/ lastEvent'.type = "mouseup" /\ ~isMouseDown'
               \/ lastEvent'.type = "start" /\ ~isMouseDown'
        /\ (nEvents' = nEvents + 1 /\ lastEvent'.type = "mousedown") => isMouseDown'
        /\ (nEvents' = nEvents + 1 /\ lastEvent'.type = "mouseup") => ~isMouseDown'
        /\ (MoveStep /\ ~isMouseDown) =>
               UNCHANGED <<characterRotation, lastMouseX, lastMouseY>>
        /\ (MoveStep /\ lastEvent.type = "mousedown") =>
               /\ PitchDragged(characterRotation.x, characterRotation'.x,
                               lastEvent'.y - lastEvent.y)
               /\ Micro(characterRotation'.y) =
                      Micro(characterRotation.y) + DragMicro(lastEvent'.x - lastEvent.x)
               /\ lastMouseX' = lastEvent'.x
               /\ lastMouseY' = lastEvent'.y
      ]_vars

\* a session has turned the body and has ended, and a move sample has
\* arrived after its release
C7_Witness ==
    /\ lastEvent.type = "mousemove"
    /\ ~isMouseDown
    /\ ~mouseClosure.down
    /\ characterRotation # InitialRotation

\* tolerance for the rounding of the sine and cosine tables: 10 percent
Tolerance == (DirScale * DirScale) \div 10

UnitLength(v) == Abs(Dot(v, v) - DirScale * DirScale) <= Tolerance

Orthogonal(u, v) == Abs(Dot(u, v)) <= Tolerance

\* C8 as stated: the forward, right and up directions handleKeyDown derives
\* from the orientation are pairwise orthogonal and of unit length.
C8_BasisOrthonormal ==
    gameStarted =>
        /\ UnitLength(forward(characterRotation))
        /\ UnitLength(right(characterRotation))
        /\ UnitLength(up(characterRotation))
        /\ Orthogonal(forward(characterRotation), right(characterRotation))
        /\ Orthogonal(forward(characterRotation), up(characterRotation))
        /\ Orthogonal(right(characterRotation), up(characterRotation))

\* the canonical frame, scaled by DirScale
CanonicalDir(key) ==
    CASE key = "w" -> Vec(0, 0, -DirScale)
      [] key = "d" -> Vec(DirScale, 0, 0)
      [] key = "a" -> Vec(-DirScale, 0, 0)
      [] key = "q" -> Vec(0, DirScale, 0)
      [] key = "e" -> Vec(0, -DirScale, 0)

\* C9 as stated: at identity orientation thrustForward adds thrustPower
\* along (0,0,-1), thrustRight along (1,0,0), thrustLeft along (-1,0,0),
\* thrustUp along (0,1,0) and thrustDown along (0,-1,0).
C9_CanonicalFrameAtIdentity ==
    [][ \A key \in {"w", "d", "a", "q", "e"} :
            (/\ KeyDownStep(key)
             /\ characterRotation = InitialRotation
             /\ keydownClosure = InitialRotation) =>
                ThrustAdded(characterVelocity, characterVelocity', CanonicalDir(key))
      ]_vars

\* the lateral axes of handleKeyDown turned about forward by the roll,
\* scaled by DirScale
RolledDir(rot, key) ==
    LET c == Cos(rot.z)
        s == Sin(rot.z)
        r == right(rot)
        u == up(rot)
        rolledRight == Vec((c * r.x + s * u.x) \div TrigScale,
                           (c * r.y + s * u.y) \div TrigScale,
                           (c * r.z + s * u.z) \div TrigScale)
        rolledUp == Vec((c * u.x - s * r.x) \div TrigScale,
                        (c * u.y - s * r.y) \div TrigScale,
                        (c * u.z - s * r.z) \div TrigScale)
    IN  CASE key = "a" -> rolledRight
          [] key = "d" -> Neg(rolledRight)
          [] key = "q" -> rolledUp
          [] key = "e" -> Neg(rolledUp)

\* C10 as stated: once the roll keys have changed the roll, left/right and
\* up/down thrust is applied along the rolled body axes.
C10_ThrustFollowsRoll ==
    [][ \A key \in {"a", "d", "q", "e"} :
            (KeyDownStep(key) /\ keydownClosure.z # Zero) =>
                ThrustAdded(characterVelocity, characterVelocity',
                            RolledDir(keydownClosure, key))
      ]_vars

\* the step renders a frame
FrameStep == lastEvent'.type = "frame"

\* the configured camera offset: none upwards, cameraDistance backwards
upOffset == 0

backOffset == cameraDistance

\* v is `length` units long, within 5 percent on the square (the sines and
\* cosines are rounded to two decimals)
HasLength(v, length) ==
    LET s == DirToUnit * TrigScale
        sq == (v.x \div s) * (v.x \div s) + (v.y \div s) * (v.y \div s)
              + (v.z \div s) * (v.z \div s)
        want == (length * TrigScale) * (length * TrigScale)
    IN  Abs(sq - want) * 20 <= want

\* C11: after every rendered frame the camera is at
\* position + up * upOffset - forward * backOffset, with forward and up the
\* thrust basis of the rendered orientation; with upOffset = 0 and
\* backOffset = 15 that is 15 units from the body.
C11_ChaseCamera ==
    [][ FrameStep =>
          LET f == forward(keydownClosure)
              u == up(keydownClosure)
              offset == Vec(camera'.x - characterPosition.x,
                            camera'.y - characterPosition.y,
                            camera'.z - characterPosition.z)
          IN  /\ offset.x = (u.x * upOffset - f.x * backOffset) * DirToUnit
              /\ offset.y = (u.y * upOffset - f.y * backOffset) * DirToUnit
              /\ offset.z = (u.z * upOffset - f.z * backOffset) * DirToUnit
              /\ HasLength(offset, cameraDistance)
      ]_vars

\* a frame was rendered for a body that has turned in pitch and yaw and
\* has left the origin
C11_Witness ==
    /\ lastEvent.type = "frame"
    /\ keydownClosure.x # Zero
    /\ keydownClosure.y # Zero
    /\ characterPosition # Origin
    /\ camera = CameraPosition(characterRotation, characterPosition)

\* C12: in the Free regime (the only one the Game has) a tick applies no
\* gravity and resolves no orientation: it leaves the velocity and the
\* orientation as the input handlers last left them, and the regime Free.
C12_FreeTickChangesPositionOnly ==
    [][ TickStep =>
          /\ regime = "Free" /\ regime' = "Free"
          /\ UNCHANGED <<characterVelocity, characterRotation, intervalClosure,
                         keydownClosure, isMouseDown, lastMouseX, lastMouseY>>
      ]_vars

\* a tick has moved a body that had been turned and set in motion
C12_Witness ==
    /\ lastEvent.type = "tick"
    /\ regime = "Free"
    /\ characterRotation # InitialRotation
    /\ characterVelocity # Origin
    /\ characterPosition = TickPosition(Origin, characterVelocity)

\* positions are compared on a grid of half a unit, the size of one thrust
Grid == Unit \div 2

\* the squared Euclidean distance of p from the origin, in grid steps
\* (rounded towards the origin)
DistanceSq(p) ==
    (Abs(p.x) \div Grid) * (Abs(p.x) \div Grid)
    + (Abs(p.y) \div Grid) * (Abs(p.y) \div Grid)
    + (Abs(p.z) \div Grid) * (Abs(p.z) \div Grid)

MaxDistanceSq == (maxDistance \div Grid) * (maxDistance \div Grid)

\* C13 as stated: the Euclidean distance of the body from the origin never
\* exceeds maxDistance.
C13_WithinRadius == DistanceSq(characterPosition) <= MaxDistanceSq

\* C13 as amended: every coordinate of the position stays within
\* [-maxDistance, maxDistance]; the clamp is per axis, so the Euclidean
\* distance stays within maxDistance * sqrt(3).
C13_WithinBox ==
    /\ Abs(characterPosition.x) <= maxDistance
    /\ Abs(characterPosition.y) <= maxDistance
    /\ Abs(characterPosition.z) <= maxDistance
    /\ DistanceSq(characterPosition) <= 3 * MaxDistanceSq

\* the body is pinned in a corner of the box, sqrt(3) * maxDistance away
C13_Witness ==
    /\ lastEvent.type = "tick"
    /\ characterPosition = Vec(maxDistance, maxDistance, -maxDistance)
    /\ DistanceSq(characterPosition) = 3 * MaxDistanceSq

\* C14 as stated: the tick is fixed-rate and independent of input: a key
\* event arriving between two ticks does not postpone or cancel the next
\* position update, so the time already counted towards it stays counted.
C14_InputNeverPostponesTick ==
    [][ (nEvents' = nEvents + 1 /\ lastEvent'.type = "keydown") =>
            elapsed' = elapsed
      ]_vars

\* C15: the tick consumes the latest values: the velocity the live physics
\* interval adds to the position is the velocity written last, so once a
\* thrust or brake event has written a new velocity no later tick adds an
\* older one.
C15_TickConsumesLatestVelocity ==
    live.interval > 0 => intervalClosure = characterVelocity

\* two thrusts were written one after the other, and a tick has added the
\* second velocity, not the first
C15_Witness ==
    /\ lastEvent.type = "tick"
    /\ nEvents = 3
    /\ characterVelocity = Vec(thrustPower, 0, -thrustPower)
    /\ characterPosition = characterVelocity

\* the step delivers an event of the given type to the regime machine
ZoneStep(type) == nEvents' = nEvents + 1 /\ lastEvent'.type = type

\* the rows of the transition table: from, event, to
TransitionTable ==
    { <<"Free", "enterPlanarZone", "Planar">>,
      <<"Planar", "exitPlanarZone", "Free">>,
      <<"Free", "enterRadialZone", "Radial">>,
      <<"Planar", "enterRadialZone", "Radial">>,
      <<"Radial", "exitRadialZone", "Free">> }

\* C16: exactly one of the regimes Free, Planar, Radial is active in every
\* reachable state, and the regime changes only by a zone-membership event,
\* along a row of the transition table.
C16_OneRegimeChangedByZoneEvents ==
    /\ [](regime \in Regimes)
    /\ [][ regime' # regime =>
              <<regime, lastEvent'.type, regime'>> \in TransitionTable ]_vars

\* a radial zone was entered, a tick resolved the orientation inside it, it
\* was left, and a radial zone is entered again
C16_Witness ==
    /\ nEvents = 4
    /\ regime = "Radial"
    /\ lastEvent.type = "enterRadialZone"
    /\ orientation.frame \in Attractors

\* C17: an attractor is referenced exactly while the regime is Radial:
\* entering a radial zone (from Free or Planar) records the attractor and
\* resets the yaw offset; exiting it returns to Free, clears the reference
\* and resets the yaw offset.
C17_AttractorHeldWhileRadial ==
    /\ [](attractor # NoAttractor <=> regime = "Radial")
    /\ [][ /\ ZoneStep("enterRadialZone") =>
                 /\ regime \in {"Free", "Planar"}
                 /\ regime' = "Radial"
                 /\ attractor' = lastEvent'.key
                 /\ attractor' \in Attractors
                 /\ yawOffset' = 0
           /\ ZoneStep("exitRadialZone") =>
                 /\ regime = "Radial"
                 /\ regime' = "Free"
                 /\ attractor' = NoAttractor
                 /\ yawOffset' = 0
          ]_vars

\* a radial zone was left after a drag and a tick inside it: the body is
\* upright on the attractor, turned by the offset that has been reset
C17_Witness ==
    /\ lastEvent.type = "exitRadialZone"
    /\ regime = "Free"
    /\ attractor = NoAttractor
    /\ yawOffset = 0
    /\ orientation.frame \in Attractors
    /\ orientation.y # Zero

\* C18 as stated: entering a gravity zone and exiting it at once returns
\* the regime to Free, with the orientation of just before the entry and
\* no yaw offset, whatever that orientation was.
C18_ZoneRoundTrip ==
    [][ (/\ lastEvent.type \in {"enterPlanarZone", "enterRadialZone"}
         /\ nEvents' = nEvents + 1
         /\ lastEvent'.type \in {"exitPlanarZone", "exitRadialZone"}) =>
            /\ regime' = "Free"
            /\ orientation' = zoneEntry
            /\ yawOffset' = 0
      ]_vars

\* C19 as stated: on Free -> Planar -> Free the yaw offset is reset to 0 on
\* both transitions, whatever the drag samples accumulated in Planar.
C19_YawOffsetResetBothWays ==
    [][ /\ ZoneStep("enterPlanarZone") => yawOffset' = 0
        /\ ZoneStep("exitPlanarZone") => yawOffset' = 0
      ]_vars

\* C20: in Constrained mode (Planar, Radial) a drag sample only adds
\* -dx * sensitivity to the yaw offset: its pitch is discarded and the
\* orientation is not written; the orientation changes only at a tick.
C20_ConstrainedDragOnlyYawOffset ==
    [][ (regime \in {"Planar", "Radial"} /\ nEvents' = nEvents + 1) =>
            /\ lastEvent'.type = "drag" =>
                  /\ orientation' = orientation
                  /\ yawOffset' = yawOffset - lastEvent'.x * sensitivity
                  /\ regime' = regime
            /\ orientation' # orientation => lastEvent'.type = "regimeTick"
      ]_vars

\* a sample with pitch and yaw input has arrived in Planar: the offset has
\* taken the yaw, the orientation is as the last tick resolved it
C20_Witness ==
    /\ regime = "Planar"
    /\ lastEvent.type = "drag"
    /\ lastEvent.x # 0
    /\ lastEvent.y # 0
    /\ yawOffset = -(lastEvent.x * sensitivity)
    /\ orientation = Oriented(Zero, Zero, Zero, WorldFrame)
    /\ zoneEntry.x # Zero

\* the world's up axis, by DirScale
WorldUp == Vec(0, DirScale, 0)

\* the world's right axis, by DirScale
WorldRight == Vec(DirScale, 0, 0)

\* C21: while the regime is Planar the body's up axis, in world space, is
\* the world's up axis: at the entry, after every drag sample and after
\* every tick.
C21_PlanarUpright ==
    regime = "Planar" =>
        /\ orientation.frame = WorldFrame
        /\ basisVectors(orientation).up = WorldUp

\* a body that was pitched has entered a planar zone; drag samples with
\* pitch input and a tick have followed, and it has turned in yaw
C21_Witness ==
    /\ regime = "Planar"
    /\ lastEvent.type = "regimeTick"
    /\ zoneEntry.x # Zero
    /\ zoneEntry.z # Zero
    /\ orientation.y # Zero
    /\ basisVectors(orientation).up = WorldUp

\* two degrees, in millionths of a radian
QuarterTurnSlack == HalfPiMicro \div 45

\* c hundredths of a radian is a quarter turn (90 degrees), within two degrees
NearQuarterTurn(c) == Abs(c * 10000 - HalfPiMicro) <= QuarterTurnSlack

\* the direction v points along the axis w (both by DirScale), within
\* Tolerance
PointsAlong(v, w) == Dot(v, w) >= DirScale * DirScale - Tolerance

\* the tick has resolved the orientation of a body in a planar zone
PlanarResolved == regime = "Planar" /\ lastEvent.type = "regimeTick"

\* C22 as stated: in Planar, with an accumulated yaw offset of 90 degrees
\* about world-up, the forward vector (the image of (0,0,-1)) points along
\* the world's right axis (1,0,0) and up is (0,1,0).
C22_QuarterYawFacesRight ==
    (PlanarResolved /\ NearQuarterTurn(yawOffset)) =>
        /\ PointsAlong(basisVectors(orientation).forward, WorldRight)
        /\ basisVectors(orientation).up = WorldUp

\* C22 amended: in Planar, with an accumulated yaw offset of 90 degrees about
\* world-up, the forward vector points along the negated right axis
\* (-1,0,0); it points along (1,0,0) when the offset is -90 degrees; up is
\* (0,1,0) in both cases.
C22_QuarterYawFacesLeft ==
    /\ (PlanarResolved /\ NearQuarterTurn(yawOffset)) =>
           /\ PointsAlong(basisVectors(orientation).forward, Neg(WorldRight))
           /\ basisVectors(orientation).up = WorldUp
    /\ (PlanarResolved /\ NearQuarterTurn(-yawOffset)) =>
           /\ PointsAlong(basisVectors(orientation).forward, WorldRight)
           /\ basisVectors(orientation).up = WorldUp

\* two drag samples to the left have accumulated a yaw offset of a quarter
\* turn in a planar zone and the tick has resolved the orientation
C22_Witness ==
    /\ PlanarResolved
    /\ yawOffset > 0
    /\ NearQuarterTurn(yawOffset)
    /\ orientation.y = Angle(yawOffset, 0)
    /\ PointsAlong(basisVectors(orientation).forward, Neg(WorldRight))

\* Quaternion.lengthSq, by DirScale * DirScale
lengthSq(q) == q.x * q.x + q.y * q.y + q.z * q.z + q.w * q.w

\* one per cent of the squared unit length
NormTolerance == (DirScale * DirScale) \div TrigScale

Music(a) == {[player |-> p, volume |-> a[p].volume] :
                p \in {r \in Players : a[r].mounted /\ a[r].isPlaying}}

\* C24 as stated: starting the game and going back to the menu change
\* neither which music plays nor at which volume.
C24_MusicSurvivesStartAndBack ==
    [][ (gameStarted' # gameStarted) => Music(audio') = Music(audio) ]_vars

\* C25 as stated: a pointer-drag sample changes pitch and yaw and nothing
\* else; the roll accumulated with the R and F keys is the same after the
\* sample as before it.
C25_DragKeepsRoll ==
    [][ MoveStep => characterRotation'.z = characterRotation.z ]_vars

\* coordinate c moved by v and held within [-maxDistance, maxDistance]
Clamped(c, v) ==
    IF c + v > maxDistance THEN maxDistance
    ELSE IF c + v < -maxDistance THEN -maxDistance
    ELSE c + v

\* C26: a tick sets every coordinate of the position to
\* clamp(coordinate + velocity component, -400, 400), so every coordinate
\* stays in [-400, 400]; the clamp leaves the velocity alone, so a body
\* pushed against the boundary keeps its velocity and stays pinned on that
\* axis.
C26_TickClampsPerAxis ==
    [][ TickStep =>
          /\ characterPosition'.x = Clamped(characterPosition.x, characterVelocity.x)
          /\ characterPosition'.y = Clamped(characterPosition.y, characterVelocity.y)
          /\ characterPosition'.z = Clamped(characterPosition.z, characterVelocity.z)
          /\ Abs(characterPosition'.x) <= maxDistance
          /\ Abs(characterPosition'.y) <= maxDistance
          /\ Abs(characterPosition'.z) <= maxDistance
          /\ characterVelocity' = characterVelocity
          /\ (characterPosition.x = maxDistance /\ characterVelocity.x > 0) =>
                 characterPosition'.x = maxDistance
          /\ (characterPosition.z = -maxDistance /\ characterVelocity.z < 0) =>
                 characterPosition'.z = -maxDistance
      ]_vars

\* the body reached the boundary in x a tick before it reached it in y, so
\* the last tick found it pinned in x; it still has its velocity
C26_Witness ==
    /\ lastEvent.type = "tick"
    /\ characterPosition.x = maxDistance
    /\ characterPosition.y = maxDistance
    /\ characterVelocity.x = 2 * BurstSpeed * Unit
    /\ characterVelocity.y = BurstSpeed * Unit

\* the event handled last was a pointer event of the drag session in
\* progress, so its coordinates are where the pointer was before this step
PointerWasAt == isMouseDown /\ lastEvent.type \in {"mousedown", "mousemove"}

\* C27 as stated: over one drag session every pointer displacement is
\* counted exactly once, so that the total yaw change is -sensitivity *
\* (X of the last sample - X at the press) and the pitch likewise, also when
\* several move samples arrive before the move handler is registered again.
\* The totals telescope: the claim holds exactly if every sample of the
\* session turns the body by its displacement from the previous pointer
\* position.
C27_DisplacementCountedOnce ==
    [][ (MoveStep /\ PointerWasAt /\ version = 1) =>
            /\ Micro(characterRotation'.y) =
                   Micro(characterRotation.y) + DragMicro(lastEvent'.x - lastEvent.x)
            /\ Micro(characterRotation'.x) =
                   Micro(characterRotation.x) + DragMicro(lastEvent'.y - lastEvent.y)
      ]_vars

\* C28 as stated: a thrust key press takes its direction from the
\* orientation as the pointer and roll handlers last wrote it, never from an
\* older one, also when the key event arrives before the keydown handler is
\* registered again.
C28_ThrustFromLatestOrientation ==
    [][ \A key \in ThrustKeys :
            KeyDownStep(key) =>
                ThrustAdded(characterVelocity, characterVelocity',
                            thrusts(characterRotation, key))
      ]_vars

\* C29: registrations never duplicate or leak: at most one physics interval
\* and at most one keydown, mousedown, mouseup and mousemove listener are
\* live at any time, and none is live when the Game is not mounted (before
\* Start and after Back to Menu).
C29_NoDuplicateNoLeak ==
    /\ \A l \in DOMAIN live : live[l] <= 1
    /\ ~gameStarted => live = NoListeners

\* Back to Menu after key presses and drag samples that had the keydown
\* listener, the mouse listeners and the interval registered again
C29_Witness ==
    /\ lastEvent.type = "back"
    /\ nEvents = MaxEvents
    /\ characterVelocity # Origin
    /\ characterRotation # InitialRotation
    /\ live = NoListeners

\* the step delivers a keydown
AnyKeyDownStep == nEvents' = nEvents + 1 /\ lastEvent'.type = "keydown"

\* the keydown of the step leaves alone what no key owns: the position, the
\* pitch, the yaw and the fields of the drag session
KeyLeavesOthers ==
    /\ characterPosition' = characterPosition
    /\ characterRotation'.x = characterRotation.x
    /\ characterRotation'.y = characterRotation.y
    /\ UNCHANGED <<isMouseDown, lastMouseX, lastMouseY>>

\* the keydown of the step changes the roll by d and nothing else
RollsBy(d) ==
    /\ characterRotation'.z = AddC(characterRotation.z, d)
    /\ characterVelocity' = characterVelocity

\* C30 as stated: w/a/s/d/q/e (in either case) and space change the
\* velocity only, r changes the roll only, by -0.1, and f by +0.1, every
\* other key changes nothing, and no key changes position, pitch, yaw or the
\* drag-session fields.
C30_KeyOwnsOneField ==
    [][ AnyKeyDownStep =>
          LET key == toLowerCase(lastEvent'.key) IN
          /\ KeyLeavesOthers
          /\ (key \in ThrustKeys \cup {" "}) => characterRotation' = characterRotation
          /\ (key = "r") => RollsBy(-rotationSpeed)
          /\ (key = "f") => RollsBy(rotationSpeed)
          /\ (key \notin ThrustKeys \cup {" ", "r", "f"}) =>
                 UNCHANGED <<characterVelocity, characterRotation>>
      ]_vars

\* C30 amended: as stated for the thrust keys, space and the keys without
\* an action; r and f change the roll only, by -0.1 and +0.1, in version 1
\* of Game, and change nothing in version 2, which has no roll keys.
C30_KeyOwnsOneFieldPerVersion ==
    [][ AnyKeyDownStep =>
          LET key == toLowerCase(lastEvent'.key) IN
          /\ KeyLeavesOthers
          /\ (key \in ThrustKeys \cup {" "}) => characterRotation' = characterRotation
          /\ (key = "r" /\ version = 1) => RollsBy(-rotationSpeed)
          /\ (key = "f" /\ version = 1) => RollsBy(rotationSpeed)
          /\ (key \in {"r", "f"} /\ version = 2) =>
                 UNCHANGED <<characterVelocity, characterRotation>>
          /\ (key \notin ThrustKeys \cup {" ", "r", "f"}) =>
                 UNCHANGED <<characterVelocity, characterRotation>>
      ]_vars

\* r was pressed in version 1 on a body that a drag had turned and a thrust
\* key had set in motion: the roll is -0.1, the yaw and the velocity are as
\* they were
C30_Witness ==
    /\ version = 1
    /\ lastEvent.type = "keydown"
    /\ toLowerCase(lastEvent.key) = "r"
    /\ characterRotation.z = Angle(-rotationSpeed, 0)
    /\ characterRotation.y # Zero
    /\ characterVelocity # Origin
    /\ characterPosition = Origin

=============================================================================
